---------------------------- MODULE Spec2Model ----------------------------
(***************************************************************************)
(* A model of scripts/verify-pdf.py: text acquisition (extract_text and    *)
(* its two tiers), the field extractors (parse_invoice_number, parse_date, *)
(* parse_amount, parse_vendor), the coordinator (extract_invoice_data) and *)
(* the reconciliation of an extraction with a bill (compare_with_bill).    *)
(*                                                                         *)
(* Text is a sequence of one-character strings.  Regular expressions are   *)
(* sequences of atoms matched by a backtracking matcher that tries, as     *)
(* Python's re does, the alternatives in their written order and the       *)
(* greedy repetition counts from the largest down.                         *)
(***************************************************************************)
EXTENDS Integers, Sequences, FiniteSets, TLC

VARIABLES
    doc,          \* the document: what each capability yields for it
    pc,           \* position in extract_invoice_data / extract_text
    text,         \* the local `text` of extract_text, then of the coordinator
    method,       \* the method extract_text returned
    result,       \* the ExtractionResult dict being built
    calls,        \* how many times each tier and the field extractors ran
    ptext,        \* input text of the field extractors (SpecParse)
    parsed,       \* what parse_amount / parse_invoice_number returned
    extracted,    \* compare_with_bill's first argument
    bill,         \* compare_with_bill's second argument
    returned      \* the lists compare_with_bill returned, one per call

vars == <<doc, pc, text, method, result, calls, ptext, parsed,
          extracted, bill, returned>>

pipelineVars == <<doc, pc, text, method, result, calls>>
parseVars == <<ptext, parsed>>
compareVars == <<extracted, bill, returned>>

---------------------------------------------------------------------------
(* Values *)

\* Python's None, and a present value: an optional is <<>> or <<v>>.
None == <<>>
Some(v) == <<v>>
Val(o) == o[1]

\* The element of a one-element set.  Only({F(x) : x \in {e}}) is F(e) with e
\* evaluated once, however often F uses it.
Only(S) == CHOOSE x \in S : TRUE

\* A str as a sequence of one-character strings.
Chars(s) == [i \in 1..Len(s) |-> SubSeq(s, i, i)]

UpperChars == Chars("ABCDEFGHIJKLMNOPQRSTUVWXYZ")
LowerChars == Chars("abcdefghijklmnopqrstuvwxyz")
DigitChars == Chars("0123456789")

Upper == {UpperChars[i] : i \in 1..26}
Lower == {LowerChars[i] : i \in 1..26}
Digit == {DigitChars[i] : i \in 1..10}
\* str.strip() and \s: whitespace
Space == {" ", "\n", "\t"}

\* re.IGNORECASE / str.upper(): case folding of one character
FoldMap == [c \in Upper |-> LowerChars[CHOOSE i \in 1..26 : UpperChars[i] = c]]
Fold(c) == IF c \in Upper THEN FoldMap[c] ELSE c
UnfoldMap == [c \in Lower |-> UpperChars[CHOOSE i \in 1..26 : LowerChars[i] = c]]
ToUpper(s) == [i \in 1..Len(s) |-> IF s[i] \in Lower THEN UnfoldMap[s[i]] ELSE s[i]]

\* the value of a decimal digit
DigitVal(c) == (CHOOSE i \in 1..10 : DigitChars[i] = c) - 1

SetMin(S) == CHOOSE i \in S : \A j \in S : i <= j
SetMax(S) == CHOOSE i \in S : \A j \in S : i >= j

\* str.strip(): from the first character that is not whitespace to the last
Strip(s) ==
    Only({ IF ink = {} THEN <<>> ELSE SubSeq(s, SetMin(ink), SetMax(ink)) :
           ink \in {{i \in 1..Len(s) : s[i] \notin Space}} })

\* s[:n]
Prefix(s, n) == SubSeq(s, 1, IF Len(s) < n THEN Len(s) ELSE n)

\* sep.join(parts)
RECURSIVE Join(_, _)
Join(parts, sep) ==
    IF parts = <<>> THEN <<>>
    ELSE IF Len(parts) = 1 THEN parts[1]
    ELSE parts[1] \o sep \o Join(Tail(parts), sep)

\* the parts one after the other
RECURSIVE Concat(_)
Concat(parts) == IF parts = <<>> THEN <<>> ELSE Head(parts) \o Concat(Tail(parts))

\* s.replace(c, '')
Remove(s, c) == SelectSeq(s, LAMBDA x : x # c)

\* text.split('\n'): line k runs from after the (k-1)th newline to before
\* the kth
SplitLines(s) ==
    Only({ [k \in 1..(Cardinality(nl) - 1) |->
              Only({ SubSeq(s, from + 1, SetMin({j \in nl : j > from}) - 1) :
                     from \in {i \in nl : Cardinality({j \in nl : j < i}) = k - 1} })] :
           nl \in {{0, Len(s) + 1} \cup {i \in 1..Len(s) : s[i] = "\n"}} })

---------------------------------------------------------------------------
(* Decimal: num / 10^exp, exact *)

RECURSIVE Pow10(_)
Pow10(n) == IF n = 0 THEN 1 ELSE 10 * Pow10(n - 1)

Dec(num, exp) == [num |-> num, exp |-> exp]
Abs(n) == IF n < 0 THEN -n ELSE n
\* a - b, exactly
DecSub(a, b) ==
    LET e == IF a.exp > b.exp THEN a.exp ELSE b.exp
    IN  Dec(a.num * Pow10(e - a.exp) - b.num * Pow10(e - b.exp), e)
DecAbs(a) == Dec(Abs(a.num), a.exp)
\* a > b
DecGT(a, b) == DecSub(a, b).num > 0
\* bool(d): a Decimal (and a float) is falsy exactly when it is zero
DecTruthy(d) == d.num # 0

RECURSIVE DigitsValue(_, _)
DigitsValue(s, acc) ==
    IF s = <<>> THEN acc ELSE DigitsValue(Tail(s), 10 * acc + DigitVal(Head(s)))

\* Decimal(s) for s made of digits and at most one point: None stands for
\* InvalidOperation, raised when s holds no digit.
DecimalOf(s) ==
    LET dots == {i \in 1..Len(s) : s[i] = "."}
        p == IF dots = {} THEN Len(s) + 1 ELSE SetMin(dots)
        digits == SelectSeq(s, LAMBDA c : c # ".")
    IN  IF Cardinality(dots) > 1 \/ digits = <<>>
           \/ \E i \in 1..Len(s) : s[i] \notin Digit \cup {"."}
        THEN None
        ELSE Some(Dec(DigitsValue(digits, 0), IF dots = {} THEN 0 ELSE Len(s) - p))

\* float(d), and Decimal(str(f)) back: a float keeps the value and loses the
\* written scale (100.00 becomes 100.0), so trailing zeros go.  Exact for the
\* amounts of the model, which have far fewer than 15 significant digits.
RECURSIVE FloatOf(_)
FloatOf(d) ==
    IF d.exp > 0 /\ d.num % 10 = 0 THEN FloatOf(Dec(d.num \div 10, d.exp - 1)) ELSE d

---------------------------------------------------------------------------
(* Regular expressions *)

\* An atom is a literal (matched case-insensitively) or a character class
\* repeated between lo and hi times, greedily.
Many == 1000
Lit(s) == [kind |-> "lit", lit |-> Chars(s), cls |-> {}, lo |-> 1, hi |-> 1]
Rep(cls, lo, hi) == [kind |-> "rep", lit |-> <<>>, cls |-> cls, lo |-> lo, hi |-> hi]

Fail == <<-1>>

\* how many characters from s[i] on are in cls, at most hi
RECURSIVE Run(_, _, _, _)
Run(cls, s, i, hi) ==
    IF hi = 0 \/ i > Len(s) \/ s[i] \notin cls THEN 0
    ELSE 1 + Run(cls, s, i + 1, hi - 1)

LitAt(lit, s, i) ==
    /\ i + Len(lit) - 1 <= Len(s)
    /\ \A j \in 1..Len(lit) : Fold(s[i + j - 1]) = Fold(lit[j])

\* Match atoms k.. of p at position i: the positions where each atom starts
\* and where the last ends, or Fail.  A repetition takes as many characters
\* as it can and gives them back one at a time while the rest fails.
RECURSIVE MatchFrom(_, _, _, _)
RECURSIVE TryCount(_, _, _, _, _)
MatchFrom(p, k, s, i) ==
    IF k > Len(p) THEN <<i>>
    ELSE IF p[k].kind = "lit"
         THEN IF LitAt(p[k].lit, s, i)
              THEN Only({ IF r = Fail THEN Fail ELSE <<i>> \o r :
                          r \in {MatchFrom(p, k + 1, s, i + Len(p[k].lit))} })
              ELSE Fail
         ELSE TryCount(p, k, s, i, Run(p[k].cls, s, i, p[k].hi))
TryCount(p, k, s, i, n) ==
    IF n < p[k].lo THEN Fail
    ELSE Only({ IF r = Fail THEN TryCount(p, k, s, i, n - 1) ELSE <<i>> \o r :
                r \in {MatchFrom(p, k + 1, s, i + n)} })

\* A pattern is a sequence of alternatives, each [atoms, cap]: the atoms of
\* one branch of the pattern's leading (?:a|b|c) followed by the rest, and the
\* index of the atom where group 1 opens (the group runs to the pattern's end).
\* Branches: capInRest is the index in `rest` of the group's first atom.
Alt(atoms, cap) == [atoms |-> atoms, cap |-> cap]
Branches(labels, rest, capInRest) ==
    [a \in 1..Len(labels) |-> Alt(labels[a] \o rest, Len(labels[a]) + capInRest)]

NoMatch == [found |-> FALSE, start |-> 0, end |-> 0, group |-> <<>>]
\* the first alternative, in order, that matches at position i
RECURSIVE MatchAt(_, _, _, _)
MatchAt(pat, s, i, a) ==
    IF a > Len(pat) THEN NoMatch
    ELSE Only({ IF b = Fail THEN MatchAt(pat, s, i, a + 1)
                ELSE [found |-> TRUE, start |-> i, end |-> b[Len(b)],
                      group |-> SubSeq(s, b[pat[a].cap], b[Len(b)] - 1)] :
                b \in {MatchFrom(pat[a].atoms, 1, s, i)} })

\* re.search(pattern, s[from-1:]): the match at the leftmost position that has one
SearchFrom(pat, s, from) ==
    Only({ IF hits = {} THEN NoMatch ELSE MatchAt(pat, s, SetMin(hits), 1) :
           hits \in {{i \in from..(Len(s) + 1) : MatchAt(pat, s, i, 1).found}} })
Search(pat, s) == SearchFrom(pat, s, 1)

\* re.findall(pattern, s): group 1 of the successive non-overlapping matches
RECURSIVE FindAllFrom(_, _, _)
FindAllFrom(pat, s, i) ==
    Only({ IF ~m.found THEN <<>>
           ELSE <<m.group>>
                  \o FindAllFrom(pat, s, IF m.end > m.start THEN m.end ELSE m.end + 1) :
           m \in {SearchFrom(pat, s, i)} })
FindAll(pat, s) == FindAllFrom(pat, s, 1)

\* character classes
AlnumI == Upper \cup Lower \cup Digit            \* [A-Z0-9] under IGNORECASE
AlnumDashI == AlnumI \cup {"-"}                   \* [-A-Z0-9] under IGNORECASE
Word == Upper \cup Lower \cup Digit \cup {"_"}    \* \w
ColonSpace == Space \cup {":"}                    \* [:\s]
DigitComma == Digit \cup {","}                    \* [\d,]
SlashDash == {"/", "-"}                           \* [/-]


\* the first element of seq that satisfies P, as an optional
FirstWhere(seq, P(_)) ==
    Only({ Only({ IF hits = {} THEN None ELSE Some(q[SetMin(hits)]) :
                  hits \in {{i \in 1..Len(q) : P(q[i])}} }) :
           q \in {seq} })

---------------------------------------------------------------------------
(* parse_invoice_number *)

AnySpace == Rep(Space, 0, Many)                            \* \s*
\* ([A-Z0-9][-A-Z0-9]{n,})
Token(n) == <<Rep(AlnumI, 1, 1), Rep(AlnumDashI, n, Many)>>
LabelRest(n) == <<Rep(ColonSpace, 0, Many)>> \o Token(n)   \* [:\s]*(token)

InvoiceLabels ==
    << <<Lit("Invoice")>>,
       <<Lit("Inv")>>,
       <<Lit("Invoice"), AnySpace, Lit("#")>>,
       <<Lit("Invoice"), AnySpace, Lit("Number")>>,
       <<Lit("Invoice"), AnySpace, Lit("No"), Rep({"."}, 0, 1)>> >>
OrderLabels ==
    << <<Lit("Order")>>,
       <<Lit("Order"), AnySpace, Lit("#")>>,
       <<Lit("Order"), AnySpace, Lit("Number")>> >>
ReferenceLabels ==
    << <<Lit("Reference")>>,
       <<Lit("Ref")>>,
       <<Lit("Ref"), AnySpace, Lit("#")>> >>

InvoiceNumberPatterns ==
    << Branches(InvoiceLabels, LabelRest(3), 2),
       Branches(OrderLabels, LabelRest(3), 2),
       Branches(ReferenceLabels, LabelRest(3), 2),
       << Alt(<<Lit("#"), AnySpace>> \o Token(5), 3) >> >>

\* the match of the first pattern, in order, that matches anywhere in s
FirstPatternMatch(patterns, s) ==
    Only({ IF hit = None THEN NoMatch ELSE Val(hit) :
           hit \in {FirstWhere([k \in 1..Len(patterns) |-> Search(patterns[k], s)],
                               LAMBDA m : m.found)} })

parse_invoice_number(s) ==
    Only({ IF m.found THEN Some(Strip(m.group)) ELSE None :
           m \in {FirstPatternMatch(InvoiceNumberPatterns, s)} })

---------------------------------------------------------------------------
(* parse_amount *)

TotalLabels ==
    << <<Lit("Total")>>,
       <<Lit("Amount"), AnySpace, Lit("Due")>>,
       <<Lit("Grand"), AnySpace, Lit("Total")>>,
       <<Lit("Balance"), AnySpace, Lit("Due")>>,
       <<Lit("Total"), AnySpace, Lit("Due")>> >>
\* ([\d,]+\.?\d*)
Number == <<Rep(DigitComma, 1, Many), Rep({"."}, 0, 1), Rep(Digit, 0, Many)>>

TotalPatterns ==
    << Branches(TotalLabels,
                <<Rep(ColonSpace, 0, Many), Rep({"$"}, 0, 1)>> \o Number, 3),
       Branches(TotalLabels,
                <<Rep(ColonSpace, 0, Many), Lit("US"), Rep({"D", "d"}, 0, 1), AnySpace>>
                    \o Number, 5) >>

\* \$\s*([\d,]+\.\d{2})
CurrencyPattern ==
    << Alt(<<Lit("$"), AnySpace, Rep(DigitComma, 1, Many), Lit("."), Rep(Digit, 2, 2)>>, 3) >>

NoAmount == [str |-> None, dec |-> None]

\* lines 181-188: the first labeled pattern whose match parses as a Decimal
LabeledAmount(s) ==
    LET tries == [k \in 1..Len(TotalPatterns) |-> Search(TotalPatterns[k], s)]
        good(m) == m.found /\ DecimalOf(Remove(m.group, ",")) # None
    IN  Only({ IF hit = None THEN NoAmount
               ELSE [str |-> Some(Val(hit).group),
                     dec |-> DecimalOf(Remove(Val(hit).group, ","))] :
               hit \in {FirstWhere(tries, good)} })

\* lines 191-203: the largest of the $ amounts (the first of the largest: the
\* sort is stable)
LargestCurrency(s) ==
    LET d(m) == Val(DecimalOf(Remove(m, ",")))
        first(amounts) ==
            CHOOSE i \in 1..Len(amounts) :
              /\ \A j \in 1..Len(amounts) : ~DecGT(d(amounts[j]), d(amounts[i]))
              /\ \A j \in 1..(i - 1) : DecGT(d(amounts[i]), d(amounts[j]))
    IN  Only({ IF amounts = <<>> THEN NoAmount
               ELSE [str |-> Some(amounts[first(amounts)]),
                     dec |-> Some(d(amounts[first(amounts)]))] :
               amounts \in {SelectSeq(FindAll(CurrencyPattern, s),
                                      LAMBDA m : DecimalOf(Remove(m, ",")) # None)} })

parse_amount(s) ==
    Only({ IF labeled # NoAmount THEN labeled ELSE LargestCurrency(s) :
           labeled \in {LabeledAmount(s)} })

---------------------------------------------------------------------------
(* parse_date *)

DateLabels ==
    << <<Lit("Invoice"), AnySpace, Lit("Date")>>, <<Lit("Date")>>, <<Lit("Issued")>> >>
\* (\d{1,2}[/-]\d{1,2}[/-]\d{a,4})
NumericDate(a) ==
    <<Rep(Digit, 1, 2), Rep(SlashDash, 1, 1), Rep(Digit, 1, 2), Rep(SlashDash, 1, 1),
      Rep(Digit, a, 4)>>
\* (\w+\s+\d{1,2},?\s+\d{4})
MonthNameDate ==
    <<Rep(Word, 1, Many), Rep(Space, 1, Many), Rep(Digit, 1, 2), Rep({","}, 0, 1),
      Rep(Space, 1, Many), Rep(Digit, 4, 4)>>
\* (\d{4}[/-]\d{1,2}[/-]\d{1,2})
IsoDate ==
    <<Rep(Digit, 4, 4), Rep(SlashDash, 1, 1), Rep(Digit, 1, 2), Rep(SlashDash, 1, 1),
      Rep(Digit, 1, 2)>>

LabeledDatePatterns ==
    << Branches(DateLabels, <<Rep(ColonSpace, 0, Many)>> \o NumericDate(2), 2),
       Branches(DateLabels, <<Rep(ColonSpace, 0, Many)>> \o MonthNameDate, 2),
       Branches(DateLabels, <<Rep(ColonSpace, 0, Many)>> \o IsoDate, 2) >>
GenericDatePatterns ==
    << <<Alt(NumericDate(4), 1)>>, <<Alt(IsoDate, 1)>>, <<Alt(MonthNameDate, 1)>> >>

MinYear == 2020
MaxYear == 2030
MaxGenericMatches == 3

\* What dateutil's parser does with a string is not this program's: it
\* raises, or gives a date with a year and a timestamp.
ParseRaises == [ok |-> FALSE, year |-> 0, ts |-> 0]
ParsedDate(year, ts) == [ok |-> TRUE, year |-> year, ts |-> ts]
DateOutcomes ==
    {ParseRaises, ParsedDate(2025, 1736899200), ParsedDate(2031, 1926201600),
     ParsedDate(1970, 0)}

\* the strings lines 139-142 hand to the parser, in order
LabeledDateCandidates(s) ==
    Only({ [i \in 1..Len(found) |-> found[i].group] :
           found \in {SelectSeq([k \in 1..Len(LabeledDatePatterns) |->
                                    Search(LabeledDatePatterns[k], s)],
                                LAMBDA m : m.found)} })
\* the strings lines 157-159 hand to the parser, in order
RECURSIVE GenericDateCandidatesFrom(_, _)
GenericDateCandidatesFrom(s, k) ==
    IF k > Len(GenericDatePatterns) THEN <<>>
    ELSE Prefix(FindAll(GenericDatePatterns[k], s), MaxGenericMatches)
            \o GenericDateCandidatesFrom(s, k + 1)
GenericDateCandidates(s) == GenericDateCandidatesFrom(s, 1)

Elements(seq) == {seq[i] : i \in 1..Len(seq)}
DateCandidates(s) == Elements(LabeledDateCandidates(s) \o GenericDateCandidates(s))

NoDate == [str |-> None, ts |-> None]

\* lines 129-167 given the strings the two tiers find: labeled, then generic
DateAmong(labeled, generic, hasDateutil, dp) ==
    LET a == FirstWhere(labeled, LAMBDA c : dp[c].ok)
        b == FirstWhere(generic,
                        LAMBDA c : dp[c].ok /\ MinYear <= dp[c].year /\ dp[c].year <= MaxYear)
    IN  IF ~hasDateutil THEN NoDate
        ELSE IF a # None THEN [str |-> a, ts |-> Some(dp[Val(a)].ts)]
        ELSE IF b # None THEN [str |-> b, ts |-> Some(dp[Val(b)].ts)]
        ELSE NoDate

\* parse_date, with HAS_DATEUTIL and the parser dp: string -> outcome
parse_date(s, hasDateutil, dp) ==
    Only({ DateAmong(labeled, generic, hasDateutil, dp) :
           labeled \in {LabeledDateCandidates(s)}, generic \in {GenericDateCandidates(s)} })

---------------------------------------------------------------------------
(* parse_vendor *)

VendorLines == 10
MinVendorLen == 3
MaxVendorLen == 100

\* re.match(pattern, line, re.IGNORECASE) for the skip patterns
SkipPatterns ==
    << <<Alt(<<Lit("invoice")>>, 1)>>,
       <<Alt(<<Lit("date")>>, 1)>>,
       <<Alt(<<Lit("bill"), AnySpace, Lit("to")>>, 1)>>,
       <<Alt(<<Lit("ship"), AnySpace, Lit("to")>>, 1)>>,
       <<Alt(<<Rep(Digit, 1, 1)>>, 1)>>,
       <<Alt(<<Lit("page")>>, 1)>>,
       <<Alt(<<Lit("total")>>, 1)>> >>

Skipped(line) == \E k \in 1..Len(SkipPatterns) : MatchAt(SkipPatterns[k], line, 1, 1).found

parse_vendor(s) ==
    LET vendor(line) ==
            /\ line # <<>> /\ Len(line) >= MinVendorLen /\ Len(line) <= MaxVendorLen
            /\ ~Skipped(line)
            /\ line[1] \in Upper
    IN  Only({ FirstWhere([i \in 1..Len(lines) |-> Strip(lines[i])], vendor) :
               lines \in {Prefix(SplitLines(s), VendorLines)} })

---------------------------------------------------------------------------
(* Text acquisition: extract_text_pdfplumber, extract_text_ocr *)

MinContent == 50
PreviewLen == 500

\* What a capability does for a document: it is not installed (HAS_PDFPLUMBER
\* / HAS_OCR is False), it raises, or it yields one text per page (an empty
\* text for a page with none).
Tier(mode, pages) == [mode |-> mode, pages |-> pages]

\* text_parts after the loop: the pages whose text is truthy
TextParts(pages) == SelectSeq(pages, LAMBDA t : t # <<>>)

extract_text_pdfplumber(d) ==
    IF d.plumber.mode = "unavailable" THEN <<>>
    ELSE IF d.plumber.mode = "raises" THEN <<>>
    ELSE Join(TextParts(d.plumber.pages), <<"\n">>)

extract_text_ocr(d) ==
    IF d.ocr.mode = "unavailable" THEN <<>>
    ELSE IF d.ocr.mode = "raises" THEN <<>>
    ELSE Join(TextParts(d.ocr.pages), <<"\n">>)

\* a threshold that leaves out its own boundary
StructuredUsableStrict(t) == Len(Strip(t)) > MinContent
\* line 96: len(text.strip()) >= 50
StructuredUsable(t) == Len(Strip(t)) >= MinContent
\* the structured tier's threshold applied to the recognized text too
OcrUsableThreshold(t) == Len(Strip(t)) >= MinContent
\* line 101: text.strip()
OcrUsable(t) == Strip(t) # <<>>

---------------------------------------------------------------------------
(* extract_invoice_data *)

EmptyResult ==
    [extraction_method |-> None, invoice_number |-> None, date_string |-> None,
     date_timestamp |-> None, amount_string |-> None, amount_decimal |-> None,
     vendor |-> None, raw_text_preview |-> None, errors |-> <<>>]

NoCalls == [plumber |-> 0, ocr |-> 0, parse |-> 0]

\* line 281: float(amount) if amount else None
AmountDecimal(amount) ==
    IF amount # None /\ DecTruthy(Val(amount)) THEN Some(FloatOf(Val(amount))) ELSE None

\* lines 264-266
CheckExists ==
    /\ pc = "start"
    /\ IF doc.exists
       THEN pc' = "structured" /\ UNCHANGED result
       ELSE /\ pc' = "done"
            /\ result' = [result EXCEPT !.errors = Append(@, "File not found")]
    /\ UNCHANGED <<doc, text, method, calls, parseVars, compareVars>>

\* line 95
RunStructured ==
    /\ pc = "structured"
    /\ text' = extract_text_pdfplumber(doc)
    /\ calls' = [calls EXCEPT !.plumber = @ + 1]
    /\ pc' = "threshold"
    /\ UNCHANGED <<doc, method, result, parseVars, compareVars>>

\* lines 96-97
CheckStructured ==
    /\ pc = "threshold"
    /\ IF StructuredUsable(text)
       THEN method' = "pdfplumber" /\ pc' = "acquired"
       ELSE method' = method /\ pc' = "ocr"
    /\ UNCHANGED <<doc, text, result, calls, parseVars, compareVars>>

\* line 100
RunOcr ==
    /\ pc = "ocr"
    /\ text' = extract_text_ocr(doc)
    /\ calls' = [calls EXCEPT !.ocr = @ + 1]
    /\ pc' = "recognized"
    /\ UNCHANGED <<doc, method, result, parseVars, compareVars>>

\* lines 101-104
CheckOcr ==
    /\ pc = "recognized"
    /\ IF OcrUsable(text)
       THEN method' = "ocr" /\ text' = text
       ELSE method' = "none" /\ text' = <<>>
    /\ pc' = "acquired"
    /\ UNCHANGED <<doc, result, calls, parseVars, compareVars>>

\* RecordText without the early return of lines 273-275
RecordTextNoReturn ==
    /\ pc = "acquired"
    /\ result' = [result EXCEPT
                    !.extraction_method = Some(method),
                    !.raw_text_preview =
                        IF text # <<>> THEN Some(Prefix(text, PreviewLen)) ELSE None]
    /\ pc' = "parse"
    /\ UNCHANGED <<doc, text, method, calls, parseVars, compareVars>>

\* lines 269-275
RecordText ==
    /\ pc = "acquired"
    /\ result' = [result EXCEPT
                    !.extraction_method = Some(method),
                    !.raw_text_preview =
                        IF text # <<>> THEN Some(Prefix(text, PreviewLen)) ELSE None,
                    !.errors = IF text # <<>> THEN @
                               ELSE Append(@, "Could not extract text from PDF")]
    /\ pc' = IF text # <<>> THEN "parse" ELSE "done"
    /\ UNCHANGED <<doc, text, method, calls, parseVars, compareVars>>

\* lines 278-284
ParseFields ==
    /\ pc = "parse"
    /\ \E number \in {parse_invoice_number(text)}, amount \in {parse_amount(text)},
          vendor \in {parse_vendor(text)},
          labeled \in {LabeledDateCandidates(text)},
          generic \in {GenericDateCandidates(text)} :
         \E dp \in [Elements(labeled \o generic) -> DateOutcomes] :
           \E date \in {DateAmong(labeled, generic, doc.dateutil, dp)} :
             result' = [result EXCEPT
                          !.invoice_number = number,
                          !.date_string = date.str,
                          !.date_timestamp = date.ts,
                          !.amount_string = amount.str,
                          !.amount_decimal = AmountDecimal(amount.dec),
                          !.vendor = vendor]
    /\ calls' = [calls EXCEPT !.parse = @ + 1]
    /\ pc' = "done"
    /\ UNCHANGED <<doc, text, method, parseVars, compareVars>>

\* The documents of the model
MaxPages == 2

\* 24 characters after a leading space, and 24 before two trailing spaces:
\* joined, PageA PageB trims to 49 characters, PageA PageA to exactly 50
PageA == Chars(" Page 1 of 2 - Acme Corp.")
PageB == Chars("Scanned copy: see page 2  ")
InvoicePage == Chars("Acme Corp\nInvoice: INV-1234\nDate: 01/15/2025\nTotal: $100.00")
ScannedPage == Chars(" \n\t ")
ScannedInvoice == Chars("Bolt Supply\nInvoice No. B-778\nTotal: $0.00")

PlumberPageTexts == {<<>>, PageA, PageB, InvoicePage}
OcrPageTexts == {<<>>, ScannedPage, ScannedInvoice}

SeqsUpTo(S, n) == UNION {[1..k -> S] : k \in 0..n}

Tiers(texts) ==
    {Tier("unavailable", <<>>), Tier("raises", <<>>)}
        \cup {Tier("ok", ps) : ps \in SeqsUpTo(texts, MaxPages)}

Documents ==
    {[exists |-> FALSE, plumber |-> Tier("ok", <<>>), ocr |-> Tier("ok", <<>>),
      dateutil |-> TRUE]}
    \cup [exists : {TRUE}, plumber : Tiers(PlumberPageTexts), ocr : Tiers(OcrPageTexts),
          dateutil : BOOLEAN]

ParseIdle == ptext = <<>> /\ parsed = [amount |-> None, number |-> None]
NoBill == [BillNumber |-> None, Amount |-> None, BillDate |-> None]
CompareIdle == extracted = EmptyResult /\ bill = NoBill /\ returned = <<>>

Init ==
    /\ doc \in Documents
    /\ pc = "start"
    /\ text = <<>>
    /\ method = "unset"
    /\ result = EmptyResult
    /\ calls = NoCalls
    /\ ParseIdle
    /\ CompareIdle

Next ==
    \/ CheckExists
    \/ RunStructured
    \/ CheckStructured
    \/ RunOcr
    \/ CheckOcr
    \/ RecordText
    \/ ParseFields

Spec == Init /\ [][Next]_vars

---------------------------------------------------------------------------
(* The field extractors on their own *)

MaxFrags == 3

Fragments ==
    { Chars("Subtotal: $80.00"), Chars(" ... "), Chars("Total: $100.00"),
      Chars("Invoice #INV-1234"), Chars("#XYZZY99"), Chars("Invoice: INV-1234"),
      Chars("$250.00"), Chars("Amount Due: USD 1,250.50"), Chars("Total: ,"),
      Chars("\n") }

Texts == {Concat(fs) : fs \in SeqsUpTo(Fragments, MaxFrags)}

PipelineIdle ==
    /\ doc = [exists |-> FALSE, plumber |-> Tier("ok", <<>>), ocr |-> Tier("ok", <<>>),
              dateutil |-> TRUE]
    /\ pc = "idle" /\ text = <<>> /\ method = "unset"
    /\ result = EmptyResult /\ calls = NoCalls

InitParse ==
    /\ ptext \in Texts
    /\ parsed = [amount |-> None, number |-> None]
    /\ PipelineIdle
    /\ CompareIdle

ParseAmount ==
    /\ parsed.amount = None
    /\ parsed' = [parsed EXCEPT !.amount = Some(parse_amount(ptext))]
    /\ UNCHANGED <<ptext, pipelineVars, compareVars>>

ParseInvoiceNumber ==
    /\ parsed.number = None
    /\ parsed' = [parsed EXCEPT !.number = Some(parse_invoice_number(ptext))]
    /\ UNCHANGED <<ptext, pipelineVars, compareVars>>

NextParse == ParseAmount \/ ParseInvoiceNumber

SpecParse == InitParse /\ [][NextParse]_vars

---------------------------------------------------------------------------
(* compare_with_bill *)

SecondsPerDay == 86400
\* Decimal('0.01')
AmountTolerance == Dec(1, 2)

\* d.get(key) in a condition: None, '' and 0 are all falsy
TruthyStr(o) == o # None /\ Val(o) # <<>>
TruthyDec(o) == o # None /\ DecTruthy(Val(o))
TruthyInt(o) == o # None /\ Val(o) # 0

\* a guard that looks at the bill only
InvoiceNumberGuardBillOnly(e, b) == TruthyStr(b.BillNumber)
\* line 295
InvoiceNumberGuard(e, b) == TruthyStr(e.invoice_number) /\ TruthyStr(b.BillNumber)
\* line 306
AmountGuard(e, b) == TruthyDec(e.amount_decimal) /\ TruthyDec(b.Amount)
\* line 319
DateGuard(e, b) == TruthyInt(e.date_timestamp) /\ TruthyInt(b.BillDate)

\* datetime.fromtimestamp(ts).strftime('%Y-%m-%d'): the day the second falls
\* in, as a day number (UTC)
DayOf(ts) == ts \div SecondsPerDay

Issue(field, severity, pdf, billValue, message) ==
    [field |-> field, severity |-> severity, pdf_value |-> pdf,
     bill_value |-> billValue, message |-> message]

\* What one field's block does: it appends nothing or one issue, or raises
\* (None has no upper(), Decimal(str(None)) is invalid, None - int is a
\* TypeError).
Step(issues) == [raised |-> FALSE, issues |-> issues]
Raises == [raised |-> TRUE, issues |-> <<>>]

\* lines 295-303
CompareInvoiceNumber(e, b) ==
    IF ~InvoiceNumberGuard(e, b) THEN Step(<<>>)
    ELSE IF e.invoice_number = None \/ b.BillNumber = None THEN Raises
    ELSE IF ToUpper(Val(e.invoice_number)) # ToUpper(Val(b.BillNumber))
         THEN Step(<<Issue("invoice_number", "WARNING", Val(e.invoice_number),
                           Val(b.BillNumber),
                           <<"Invoice number mismatch", Val(e.invoice_number),
                             Val(b.BillNumber)>>)>>)
         ELSE Step(<<>>)

\* lines 306-316
CompareAmount(e, b) ==
    IF ~AmountGuard(e, b) THEN Step(<<>>)
    ELSE IF e.amount_decimal = None \/ b.Amount = None THEN Raises
    ELSE IF DecGT(DecAbs(DecSub(Val(e.amount_decimal), Val(b.Amount))), AmountTolerance)
         THEN Step(<<Issue("amount", "ERROR", FloatOf(Val(e.amount_decimal)),
                           FloatOf(Val(b.Amount)),
                           <<"Amount mismatch", Val(e.amount_decimal), Val(b.Amount)>>)>>)
         ELSE Step(<<>>)

\* lines 319-330: abs(pdf_ts - bill_ts) / 86400 > 1
CompareDate(e, b) ==
    IF ~DateGuard(e, b) THEN Step(<<>>)
    ELSE IF e.date_timestamp = None \/ b.BillDate = None THEN Raises
    ELSE IF Abs(Val(e.date_timestamp) - Val(b.BillDate)) > 1 * SecondsPerDay
         THEN Step(<<Issue("date", "WARNING", e.date_string, DayOf(Val(b.BillDate)),
                           <<"Date mismatch", e.date_string, DayOf(Val(b.BillDate))>>)>>)
         ELSE Step(<<>>)

\* the blocks in the order they run; the first that raises ends the call
RunBlocks(blocks) ==
    IF \E k \in 1..Len(blocks) : blocks[k].raised THEN Raises
    ELSE Step(Concat([k \in 1..Len(blocks) |-> blocks[k].issues]))

\* the amount block moved before the invoice-number block
compare_amount_first(e, b) ==
    RunBlocks(<<CompareAmount(e, b), CompareInvoiceNumber(e, b), CompareDate(e, b)>>)

compare_with_bill(e, b) ==
    RunBlocks(<<CompareInvoiceNumber(e, b), CompareAmount(e, b), CompareDate(e, b)>>)

\* The extractions and the bills of the model
MaxCalls == 2

\* 2025-01-15 00:00:00 UTC
InvoiceDay == 20103 * SecondsPerDay

Extractions ==
    { [EmptyResult EXCEPT !.extraction_method = Some("pdfplumber"),
                          !.invoice_number = n, !.amount_string = a.str,
                          !.amount_decimal = a.dec, !.date_string = d.str,
                          !.date_timestamp = d.ts] :
        n \in {None, Some(Chars("INV-1234")), Some(Chars("inv-1234")), Some(Chars("B-778"))},
        a \in {NoAmount,
               [str |-> Some(Chars("100.00")), dec |-> Some(Dec(1000, 1))],
               [str |-> Some(Chars("100.01")), dec |-> Some(Dec(10001, 2))],
               [str |-> Some(Chars("0.50")), dec |-> Some(Dec(5, 1))]},
        d \in {NoDate,
               [str |-> Some(Chars("01/15/2025")), ts |-> Some(InvoiceDay)],
               [str |-> Some(Chars("01/01/1970")), ts |-> Some(0)]} }

Bills ==
    [BillNumber : {None, Some(Chars("INV-1234")), Some(Chars("B-778"))},
     Amount : {None, Some(Dec(0, 0)), Some(Dec(10000, 2)), Some(Dec(10001, 2)),
               Some(Dec(10002, 2)), Some(Dec(99989, 3))},
     BillDate : {None, Some(0), Some(InvoiceDay), Some(InvoiceDay + SecondsPerDay),
                 Some(InvoiceDay + SecondsPerDay + 1), Some(InvoiceDay - SecondsPerDay)}]

InitCompare ==
    /\ extracted \in Extractions
    /\ bill \in Bills
    /\ returned = <<>>
    /\ PipelineIdle
    /\ ParseIdle

Compare ==
    /\ Len(returned) < MaxCalls
    /\ returned' = Append(returned, compare_with_bill(extracted, bill))
    /\ UNCHANGED <<extracted, bill, pipelineVars, parseVars>>

NextCompare == Compare

SpecCompare == InitCompare /\ [][NextCompare]_vars

---------------------------------------------------------------------------
(* Properties *)

StructuredText == extract_text_pdfplumber(doc)
OcrText == extract_text_ocr(doc)
\* extract_text has returned
Returned == pc \in {"acquired", "parse", "done"} /\ calls.plumber > 0

\* C1: a document whose structured text trims to at least 50 characters is
\* acquired with method 'pdfplumber' and that text as content, the structured
\* tier runs once and the image-recognition tier never runs.
C1_StructuredTierWins ==
    (doc.exists /\ Len(Strip(StructuredText)) >= MinContent)
        => /\ calls.ocr = 0
           /\ calls.plumber <= 1
           /\ Returned => (method = "pdfplumber" /\ text = StructuredText)

\* a document acquired from structured text of exactly 50 trimmed characters
\* whose image-recognition tier had text to give
C1_Witness ==
    /\ pc = "done" /\ method = "pdfplumber"
    /\ Len(Strip(StructuredText)) = MinContent
    /\ Len(StructuredText) > MinContent
    /\ Strip(OcrText) # <<>>

SubAt(s, t, i) == i + Len(t) - 1 <= Len(s) /\ SubSeq(s, i, i + Len(t) - 1) = t
Contains(s, t) == \E i \in 1..Len(s) : SubAt(s, t, i)

\* C2: for a text with "Subtotal: $80.00" and, later, "Total: $100.00",
\* parse_amount returns the figure labeled Total: ('100.00', 100.00).
C2_LabeledTotalWins ==
    \A i, j \in 1..Len(ptext) :
        ( /\ parsed.amount # None
          /\ SubAt(ptext, Chars("Subtotal: $80.00"), i)
          /\ SubAt(ptext, Chars("Total: $100.00"), j)
          /\ j >= i + Len("Subtotal: $80.00") )
        => Val(parsed.amount) = [str |-> Some(Chars("100.00")), dec |-> Some(Dec(10000, 2))]

\* C3: for a text with both "Invoice #INV-1234" and "#XYZZY99", in either
\* order, parse_invoice_number returns exactly 'INV-1234'.
C3_LabeledNumberWins ==
    ( /\ parsed.number # None
      /\ Contains(ptext, Chars("Invoice #INV-1234"))
      /\ Contains(ptext, Chars("#XYZZY99")) )
    => Val(parsed.number) = Some(Chars("INV-1234"))

\* C4: in the result extract_invoice_data returns, amount_string and
\* amount_decimal are both present or both absent, and so are date_string and
\* date_timestamp.
C4_PairedFields ==
    pc = "done"
        => /\ (result.amount_string = None) <=> (result.amount_decimal = None)
           /\ (result.date_string = None) <=> (result.date_timestamp = None)

FieldIssues(r, f) == SelectSeq(r.issues, LAMBDA x : x.field = f)

\* C5: when the extraction and the bill both have an amount, compare_with_bill
\* emits exactly one 'amount' issue, of severity ERROR, if the amounts differ
\* by more than 0.01, and none otherwise.
C5_AmountTolerance ==
    \A k \in 1..Len(returned) :
        (extracted.amount_decimal # None /\ bill.Amount # None)
        => /\ ~returned[k].raised
           /\ IF DecGT(DecAbs(DecSub(Val(extracted.amount_decimal), Val(bill.Amount))),
                       Dec(1, 2))
              THEN /\ Len(FieldIssues(returned[k], "amount")) = 1
                   /\ FieldIssues(returned[k], "amount")[1].severity = "ERROR"
              ELSE FieldIssues(returned[k], "amount") = <<>>

\* C6: when the extraction and the bill both have a date, compare_with_bill
\* emits exactly one 'date' issue, of severity WARNING, if the timestamps
\* differ by more than 86400 seconds, and none otherwise.
C6_DateTolerance ==
    \A k \in 1..Len(returned) :
        (extracted.date_timestamp # None /\ bill.BillDate # None)
        => /\ ~returned[k].raised
           /\ IF Abs(Val(extracted.date_timestamp) - Val(bill.BillDate)) > SecondsPerDay
              THEN /\ Len(FieldIssues(returned[k], "date")) = 1
                   /\ FieldIssues(returned[k], "date")[1].severity = "WARNING"
              ELSE FieldIssues(returned[k], "date") = <<>>

NoUsableText ==
    doc.exists /\ Len(Strip(StructuredText)) < MinContent /\ Strip(OcrText) = <<>>

\* C7: for an existing document with no usable text from either tier, the
\* coordinator always gets to its return (no step is stuck), and returns
\* errors, method 'none' and every other field absent without running the
\* field extractors.
C7_NoTextResult ==
    NoUsableText
        => /\ calls.parse = 0
           /\ pc # "done" => ENABLED Next
           /\ pc = "done"
                => /\ result.errors # <<>>
                   /\ result = [EmptyResult EXCEPT !.extraction_method = Some("none"),
                                                   !.errors = result.errors]

\* such a document returned: its structured text is 50 characters long but
\* trims to fewer, and its recognized text is whitespace only
C7_Witness ==
    /\ pc = "done" /\ NoUsableText
    /\ Len(StructuredText) >= MinContent
    /\ OcrText # <<>>
    /\ result.errors # <<>>

Fields == {"invoice_number", "amount", "date"}
Absent(e, f) ==
    CASE f = "invoice_number" -> e.invoice_number = None
      [] f = "amount" -> e.amount_decimal = None
      [] f = "date" -> e.date_timestamp = None
\* e with a value for field f
Filled(e, f) ==
    CASE f = "invoice_number" -> [e EXCEPT !.invoice_number = Some(Chars("INV-1234"))]
      [] f = "amount" -> [e EXCEPT !.amount_string = Some(Chars("100.00")),
                                   !.amount_decimal = Some(Dec(1000, 1))]
      [] f = "date" -> [e EXCEPT !.date_string = Some(Chars("01/15/2025")),
                                 !.date_timestamp = Some(InvoiceDay)]

\* C8: compare_with_bill never raises; for a field absent from the
\* extraction it emits no issue, whatever the bill holds; and the issues of
\* every other field are those it emits when the absent field has a value.
C8_AbsentFieldSkipped ==
    \A k \in 1..Len(returned) :
        /\ ~returned[k].raised
        /\ \A f \in Fields :
             Absent(extracted, f)
             => /\ FieldIssues(returned[k], f) = <<>>
                /\ \A g \in Fields \ {f} :
                     FieldIssues(returned[k], g)
                         = FieldIssues(compare_with_bill(Filled(extracted, f), bill), g)

\* the invoice number is absent, the bill has one, and another field's
\* comparison still reports its mismatch
C8_Witness ==
    /\ returned # <<>>
    /\ extracted.invoice_number = None /\ bill.BillNumber # None
    /\ extracted.date_timestamp = None /\ bill.BillDate # None
    /\ FieldIssues(returned[1], "amount") # <<>>

Rank(f) == CASE f = "invoice_number" -> 1 [] f = "amount" -> 2 [] f = "date" -> 3
InFieldOrder(issues) ==
    \A i, j \in 1..Len(issues) : i < j => Rank(issues[i].field) < Rank(issues[j].field)

\* C9: every list compare_with_bill returns has at most one issue per field,
\* in the order invoice number, amount, date; a later call on the same pair
\* returns the same list; and no call changes the extraction or the bill.
C9_OrderedAndRepeatable ==
    /\ [](\A k \in 1..Len(returned) :
            /\ InFieldOrder(returned[k].issues)
            /\ returned[k] = returned[1])
    /\ [][extracted' = extracted /\ bill' = bill]_vars

\* two calls made, each reporting all three fields
C9_Witness ==
    /\ Len(returned) = MaxCalls
    /\ Len(returned[1].issues) = Cardinality(Fields)

\* C10: when the structured text trims to fewer than 50 characters (also
\* when that tier raised) and the recognized text has a non-whitespace
\* character, extract_text returns method 'ocr' and the recognized text; and
\* whatever it returns, the method is 'none' exactly when the content is ''.
C10_OcrFallback ==
    Returned
        => /\ (Len(Strip(StructuredText)) < MinContent /\ Strip(OcrText) # <<>>)
                => (method = "ocr" /\ text = OcrText)
           /\ (method = "none") <=> (text = <<>>)

\* the structured tier raised and the recognized text was returned
C10_Witness ==
    /\ Returned /\ doc.plumber.mode = "raises"
    /\ method = "ocr" /\ text = OcrText /\ Strip(text) # text

===========================================================================
